---------------------------- MODULE Spec2Model ----------------------------
(***************************************************************************)
(* Model of battop's chart buffer, ChartData<N> (src/app/ui/chart.rs).     *)
(*                                                                         *)
(* Representation.                                                         *)
(*  - An f64 is kept exactly as an integer number of HALVES (fixed point  *)
(*    with one binary digit after the point): the model's number is twice  *)
(*    the program's.  f64(n) is the f64 n.0, 0.5 is 1, 2.5 is 5.  Every x  *)
(*    the program stores is RESOLUTION/2 - k * 0.5, which this holds       *)
(*    exactly; floor, ceil and the formatting act on the halves.           *)
(*  - A point (x, y) is the tuple <<x, y>>.                                *)
(*  - points_sets is indexed 0 .. N-1 like the Rust array; each Vec is a   *)
(*    sequence whose element 1 is the Vec's element 0 (the front).         *)
(***************************************************************************)
EXTENDS Integers, Sequences, FiniteSets, TLC

\* chart.rs:14 is RESOLUTION = 512; the model runs the same code with a
\* small capacity so that filling the buffer and evicting are reached.
RESOLUTION == 4

\* The f64 n.0, in halves.
f64(n) == 2 * n

\* The 0.5 of chart.rs:80, in halves.
AGE_STEP == 1

\* The sample values the environment pushes to series 0 (1.0, 2.0, 3.0, 5.0,
\* 9.0) and to the other series (5.0).
Values == {f64(1), f64(2), f64(3), f64(5), f64(9)}

OtherValues == {f64(5)}

ValuesFor(index) == IF index = 0 THEN Values ELSE OtherValues

\* Samples around zero, whole and fractional: -1.5, -1.0, -0.5, 0.0, 2.5 for
\* series 0 and 3.0 for the other series.  With -1.5 as the maximum,
\* ceil(value_max + 1.0) is the f64 -0.0.
SignedValues == {-3, -f64(1), -1, f64(0), 5}

\* battery::State, as far as title() tells the states apart.
States == {"Unknown", "Charging", "Discharging"}

SignedValuesFor(index) == IF index = 0 THEN SignedValues ELSE {f64(3)}

\* A smaller choice of samples, for the specifications with more calls: 1.0
\* and 9.0 to series 0, 5.0 to series 1, and 3.0 to series N, one past the
\* last series, for a caller that breaks the precondition index < N.
FewValuesFor(index) ==
    IF index = 0 THEN {f64(1), f64(9)} ELSE IF index = 1 THEN {f64(5)} ELSE {f64(3)}

\* The colours of the two-series chart built in view.rs:26; N is their number.
EnergyRateColors == <<"Green", "Red">>

\* Config::units() as read by current(); fixed for the life of the program.
Config == [units |-> "Human"]

VARIABLES
    chart,      \* the ChartData under observation
    hist,       \* observer: the arguments of the most recent pushes, oldest first
    last_call,  \* observer: the most recent call made on the chart
    saved,      \* observer: what the renderer read when the chart was last disabled
    panicked,   \* whether a call has panicked: the program is then over
    last_read,  \* observer: what the renderer read last, since the last push
    view,       \* a View: its three charts (voltage, energy_rate, temperature)
    last_update \* observer: the most recent View::update, its refresh and its result

vars == <<chart, hist, last_call, saved, panicked, last_read, view, last_update>>

-----------------------------------------------------------------------------
\* Helpers standing for the Rust iterator adaptors used by the code.

\* The series indices of a points_sets array, 0 .. N-1.
Indices(sets) == DOMAIN sets

\* self.points_sets.iter().map(|set| set.len()).sum::<usize>()
RECURSIVE SumLen(_, _)
SumLen(sets, n) == IF n = 0 THEN 0 ELSE SumLen(sets, n - 1) + Len(sets[n - 1])

TotalLen(sets) == SumLen(sets, Cardinality(Indices(sets)))

\* self.points_sets.iter().flatten(): all points, series 0 first.
RECURSIVE FlattenTo(_, _)
FlattenTo(sets, n) == IF n = 0 THEN <<>> ELSE FlattenTo(sets, n - 1) \o sets[n - 1]

Flatten(sets) == FlattenTo(sets, Cardinality(Indices(sets)))

\* Mutation: the key is read from the back of the series.
FrontKeyOfBack(set) == IF Len(set) > 0 THEN <<0, set[Len(set)][1]>> ELSE <<1, 0>>

\* Mutation: an empty series has the key 0.0.
FrontKeyZeroIfEmpty(set) == IF Len(set) > 0 THEN <<0, set[1][1]>> ELSE <<0, f64(0)>>

\* The key of min_by_key: the front x of a series, f64::INFINITY when the
\* series is empty.  <<0, x>> is the finite x, <<1, 0>> is INFINITY.
FrontKey(set) == IF Len(set) > 0 THEN <<0, set[1][1]>> ELSE <<1, 0>>

KeyLess(a, b) == a[1] < b[1] \/ (a[1] = b[1] /\ a[2] < b[2])

\* Mutation: max_by_key, the last one when several are equally maximum.
MaxByKey(sets) ==
    CHOOSE i \in Indices(sets) :
        /\ \A j \in Indices(sets) : ~KeyLess(FrontKey(sets[i]), FrontKey(sets[j]))
        /\ \A j \in Indices(sets) :
               j > i => KeyLess(FrontKey(sets[j]), FrontKey(sets[i]))

\* Iterator::min_by_key: the index of the series with the least key, the
\* first one in iteration order when several are equally minimum.
MinByKey(sets) ==
    CHOOSE i \in Indices(sets) :
        /\ \A j \in Indices(sets) : ~KeyLess(FrontKey(sets[j]), FrontKey(sets[i]))
        /\ \A j \in Indices(sets) :
               j < i => KeyLess(FrontKey(sets[i]), FrontKey(sets[j]))

\* Mutation: pop() in place of remove(0).
RemoveBack(set) == SubSeq(set, 1, Len(set) - 1)

\* Vec::remove(0): drops the front element (panics on an empty Vec; Tail of
\* the empty sequence is an error in the model as well).
RemoveFront(set) == Tail(set)

\* Mutation: a whole unit is taken off.
AgePointOneUnit(p) == <<p[1] - f64(1), p[2]>>

\* *x -= 0.5
AgePoint(p) == <<p[1] - AGE_STEP, p[2]>>

\* Mutation: only the first series is aged.
AgeFirst(sets) ==
    [i \in Indices(sets) |->
        IF i = 0 THEN [k \in 1 .. Len(sets[i]) |-> AgePoint(sets[i][k])] ELSE sets[i]]

\* for (x, _) in self.points_sets.iter_mut().flatten() { ... }
AgeAll(sets) == [i \in Indices(sets) |-> [k \in 1 .. Len(sets[i]) |-> AgePoint(sets[i][k])]]

\* itertools minmax_by_key(|(_, y)| y) over a sequence of points.
RECURSIVE MinY(_)
MinY(ps) ==
    IF Len(ps) = 1 THEN ps[1][2]
    ELSE LET m == MinY(Tail(ps)) IN IF ps[1][2] <= m THEN ps[1][2] ELSE m

RECURSIVE MaxY(_)
MaxY(ps) ==
    IF Len(ps) = 1 THEN ps[1][2]
    ELSE LET m == MaxY(Tail(ps)) IN IF ps[1][2] > m THEN ps[1][2] ELSE m

\* Mutation: the key is the x of the point, not its y.
MinMaxByX(ps) ==
    IF Len(ps) = 0 THEN [kind |-> "NoElements", min |-> 0, max |-> 0]
    ELSE IF Len(ps) = 1 THEN [kind |-> "OneElement", min |-> ps[1][2], max |-> ps[1][2]]
    ELSE [kind |-> "MinMax",
          min  |-> (CHOOSE p \in {ps[k] : k \in 1 .. Len(ps)} :
                        \A k \in 1 .. Len(ps) : p[1] <= ps[k][1])[2],
          max  |-> (CHOOSE p \in {ps[k] : k \in 1 .. Len(ps)} :
                        \A k \in 1 .. Len(ps) : p[1] >= ps[k][1])[2]]

MinMaxByKey(ps) ==
    IF Len(ps) = 0 THEN [kind |-> "NoElements", min |-> 0, max |-> 0]
    ELSE IF Len(ps) = 1 THEN [kind |-> "OneElement", min |-> ps[1][2], max |-> ps[1][2]]
    ELSE [kind |-> "MinMax", min |-> MinY(ps), max |-> MaxY(ps)]

-----------------------------------------------------------------------------
\* ChartData

\* ChartData::new
new(config, chart_type, colors) ==
    [ config        |-> config,
      chart_type    |-> chart_type,
      enabled       |-> TRUE,
      battery_state |-> "Unknown",
      points_sets   |-> [i \in 0 .. Len(colors) - 1 |-> <<>>],
      colors        |-> colors,
      value_latest  |-> f64(0),
      value_min     |-> f64(100),
      value_max     |-> f64(0) ]

\* Mutation: disabling also forgets the latest value.
enabled_clearing(c, value) ==
    [c EXCEPT !.enabled = value, !.value_latest = IF value THEN @ ELSE f64(0)]

\* ChartData::enabled
enabled(c, value) == [c EXCEPT !.enabled = value]

\* Mutation: the test is off by one.
IsFullOffByOne(sets) == TotalLen(sets) = RESOLUTION + 1

\* The test of chart.rs:70.
IsFull(sets) == TotalLen(sets) = RESOLUTION

\* Mutation: the seed is not halved.
NewPointNotHalved(value) == <<f64(RESOLUTION), value>>

\* Mutation: the point is pushed before the aging and aged with the others.
NewPointAged(value) == <<f64(RESOLUTION) \div 2 - AGE_STEP, value>>

\* The point pushed by chart.rs:85: (RESOLUTION as f64 / 2.0, value).
NewPoint(value) == <<f64(RESOLUTION) \div 2, value>>

\* The eviction of chart.rs:71-77 panics: min_by_key finds no series
\* (unwrap of None) or remove(0) is called on an empty Vec.
evict_panics(sets) ==
    IsFull(sets) /\ (Indices(sets) = {} \/ Len(sets[MinByKey(sets)]) = 0)

\* ChartData::push panics: in the eviction, or at self.points_sets[index]
\* (chart.rs:85) when index is not below N.
push_panics(c, value, index) ==
    evict_panics(c.points_sets) \/ index \notin Indices(c.points_sets)

\* Mutation: the index is checked on entry.
push_checking_index_first(c, value, index) ==
    IF evict_panics(c.points_sets) \/ index \notin Indices(c.points_sets) THEN c
    ELSE
    LET evicted == IF IsFull(c.points_sets)
                   THEN [c.points_sets EXCEPT ![MinByKey(c.points_sets)] = RemoveFront(@)]
                   ELSE c.points_sets
        aged    == AgeAll(evicted)
        pushed  == [aged EXCEPT ![index] = Append(@, NewPoint(value))]
        mm      == MinMaxByKey(Flatten(pushed))
    IN  [c EXCEPT !.points_sets  = pushed,
                  !.value_latest = value,
                  !.value_min    = IF mm.kind = "NoElements" THEN @ ELSE mm.min,
                  !.value_max    = IF mm.kind = "NoElements" THEN @ ELSE mm.max]

\* ChartData::push: the chart as the call leaves it, on return or at the
\* panic.  A panic in the eviction comes before any assignment; the panic at
\* points_sets[index] comes after the eviction, the aging and the assignment
\* of value_latest.
push(c, value, index) ==
    IF evict_panics(c.points_sets) THEN c
    ELSE
    LET evicted == IF IsFull(c.points_sets)
                   THEN [c.points_sets EXCEPT ![MinByKey(c.points_sets)] = RemoveFront(@)]
                   ELSE c.points_sets
        aged    == AgeAll(evicted)
        pushed  == [aged EXCEPT ![index] = Append(@, NewPoint(value))]
        mm      == MinMaxByKey(Flatten(pushed))
    IN  IF index \notin Indices(c.points_sets)
        THEN [c EXCEPT !.points_sets = aged, !.value_latest = value]
        ELSE [c EXCEPT !.points_sets  = pushed,
                       !.value_latest = value,
                       !.value_min    = IF mm.kind = "NoElements" THEN @ ELSE mm.min,
                       !.value_max    = IF mm.kind = "NoElements" THEN @ ELSE mm.max]

\* *c.battery_state() = state: the &mut State that ChartData::battery_state
\* hands out, written by the caller.
battery_state(c, state) == [c EXCEPT !.battery_state = state]

\* ChartData::title
title(c) ==
    CASE c.chart_type = "Voltage" -> "Voltage"
      [] c.chart_type = "EnergyRate" ->
            CASE c.battery_state = "Charging" -> "Charging with"
              [] c.battery_state = "Discharging" -> "Discharging with"
              [] OTHER -> "Consumption"
      [] c.chart_type = "Temperature" -> "Temperature"

\* format!("{:.2}", v): sign, integer part, two decimals.
Fmt2(v) ==
    LET a == IF v < 0 THEN -v ELSE v
    IN  (IF v < 0 THEN "-" ELSE "") \o ToString(a \div 2)
            \o (IF a % 2 = 1 THEN ".50" ELSE ".00")

\* volt::abbreviation(), watt::abbreviation(), ... of the units crate.
abbreviation(unit) ==
    CASE unit = "volt" -> "V"
      [] unit = "watt" -> "W"
      [] unit = "degree_celsius" -> "°C"
      [] unit = "kelvin" -> "K"

\* ChartData::current
current(c) ==
    IF c.enabled
    THEN CASE c.chart_type = "Voltage" -> Fmt2(c.value_latest) \o " " \o abbreviation("volt")
           [] c.chart_type = "EnergyRate" -> Fmt2(c.value_latest) \o " " \o abbreviation("watt")
           [] c.chart_type = "Temperature" ->
                IF c.config.units = "Human"
                THEN Fmt2(c.value_latest) \o " " \o abbreviation("degree_celsius")
                ELSE Fmt2(c.value_latest) \o " " \o abbreviation("kelvin")
    ELSE "NOT AVAILABLE"

\* ChartData::x_bounds: [0.0, 256.0], 256.0 being RESOLUTION / 2.
x_bounds(c) == <<f64(0), f64(RESOLUTION) \div 2>>

\* f64::floor and f64::ceil on halves.
floor(v) == 2 * (v \div 2)

ceil(v) == 2 * ((v + 1) \div 2)

\* Mutation: the lower bound is clamped to 0.0.
y_lower_clamped_to_zero(c) ==
    IF c.enabled
    THEN LET value == floor(c.value_min - f64(1))
         IN  IF value < f64(0) THEN f64(0) ELSE value
    ELSE f64(0)

\* Mutation: the lower bound is not padded.
y_lower_unpadded(c) ==
    IF c.enabled
    THEN LET value == floor(c.value_min)
         IN  IF value < f64(0) THEN -f64(1) ELSE value
    ELSE f64(0)

\* ChartData::y_lower
y_lower(c) ==
    IF c.enabled
    THEN LET value == floor(c.value_min - f64(1))
         IN  IF value < f64(0) THEN -f64(1) ELSE value
    ELSE f64(0)

\* Mutation: the upper bound does not look at the flag.
y_upper_unguarded(c) == ceil(c.value_max + f64(1))

\* ChartData::y_upper
y_upper(c) == IF c.enabled THEN ceil(c.value_max + f64(1)) ELSE f64(0)

\* The sign bit of the f64 that y_lower returns.  Set only for -1.0: a floor
\* below 0.0 is replaced by -1.0, and value_min - 1.0 is never -0.0.
y_lower_sign(c) == y_lower(c) < f64(0)

\* The sign bit of the f64 that y_upper returns.  f64::ceil keeps the sign
\* of its argument, so for value_max + 1.0 in (-1.0, 0.0) the result is -0.0.
y_upper_sign(c) == c.enabled /\ c.value_max + f64(1) < f64(0)

\* format!("{:2.0}", v) of the f64 with value v and sign bit negative: v
\* rounded to an integer (a half goes to the even neighbour), "-" when the
\* sign bit is set, -0.0 included, right-aligned in a width of 2.
Fmt0(v, negative) ==
    LET a   == IF v < 0 THEN -v ELSE v
        lo  == a \div 2
        n   == IF a % 2 = 0 THEN lo ELSE IF lo % 2 = 0 THEN lo ELSE lo + 1
        str == (IF negative THEN "-" ELSE "") \o ToString(n)
    IN  IF Len(str) < 2 THEN " " \o str ELSE str

\* Mutation: the labels are listed upper first.
y_labels_swapped(c) ==
    <<Fmt0(y_upper(c), y_upper_sign(c)), Fmt0(y_lower(c), y_lower_sign(c))>>

\* ChartData::y_labels
y_labels(c) ==
    <<Fmt0(y_lower(c), y_lower_sign(c)), Fmt0(y_upper(c), y_upper_sign(c))>>

\* ChartData::y_bounds
y_bounds(c) == <<y_lower(c), y_upper(c)>>

\* ChartData::points: each series with its colour (colors[i] is the model's
\* colors[i + 1]).
points(c) == [i \in Indices(c.points_sets) |-> <<c.points_sets[i], c.colors[i + 1]>>]

-----------------------------------------------------------------------------
\* View

\* View::new
View_new(config) ==
    [ config      |-> config,
      voltage     |-> new(config, "Voltage", <<"Green">>),
      energy_rate |-> new(config, "EnergyRate", <<"Green", "Red">>),
      temperature |-> new(config, "Temperature", <<"Green">>) ]

\* temp.get::<degree_celsius>() or temp.get::<kelvin>(), by Config::units().
temperature_value(config, temp) ==
    IF config.units = "Human" THEN temp.degree_celsius ELSE temp.kelvin

\* Mutation: the else branch, enabled(false), is missing.
update_temperature_never_disabling(v, battery) ==
    IF battery.temperature.some
    THEN enabled(battery_state(push(v.temperature,
                                    temperature_value(v.config, battery.temperature), 0),
                               battery.state), TRUE)
    ELSE v.temperature

\* View::update, view.rs:48-58: the temperature chart after the update.
update_temperature(v, battery) ==
    IF battery.temperature.some
    THEN enabled(battery_state(push(v.temperature,
                                    temperature_value(v.config, battery.temperature), 0),
                               battery.state), TRUE)
    ELSE enabled(v.temperature, FALSE)

\* View::update, view.rs:35-58: the three charts fed from the battery.
update_charts(v, battery) ==
    LET index == IF battery.state = "Discharging" THEN 1 ELSE 0
    IN  [v EXCEPT
            !.voltage     = battery_state(push(@, battery.voltage, 0), battery.state),
            !.energy_rate = battery_state(push(@, battery.energy_rate, index),
                                          battery.state),
            !.temperature = update_temperature(v, battery)]

\* Mutation: the error of refresh is dropped (no ? after the call).
update_ignoring_refresh_error(v, refresh) ==
    [view |-> update_charts(v, refresh.battery), result |-> "Ok"]

\* View::update.  refresh is what manager.refresh(&mut self.battery) did:
\* whether it returned Ok, and the battery as it left it.
update(v, refresh) ==
    IF ~refresh.ok
    THEN [view |-> v, result |-> "Err"]
    ELSE [view |-> update_charts(v, refresh.battery), result |-> "Ok"]

\* The batteries a refresh may leave: voltage, state, energy rate and the
\* temperature, if there is one, in both units (to the half).
None == [some |-> FALSE, degree_celsius |-> 0, kelvin |-> 0]

Some(degree_celsius, kelvin) ==
    [some |-> TRUE, degree_celsius |-> degree_celsius, kelvin |-> kelvin]

Batteries ==
    { [voltage |-> f64(12), state |-> "Charging", energy_rate |-> f64(7),
       temperature |-> Some(f64(30) + 1, f64(303) + 1)],
      [voltage |-> f64(11) + 1, state |-> "Discharging", energy_rate |-> f64(9) + 1,
       temperature |-> None],
      [voltage |-> f64(11) + 1, state |-> "Discharging", energy_rate |-> f64(7),
       temperature |-> Some(f64(31), f64(304))] }

Refreshes == [ok : BOOLEAN, battery : Batteries]

NoUpdate == [result |-> "None", refresh |-> [ok |-> TRUE, battery |-> <<>>]]

-----------------------------------------------------------------------------
\* The observers.

\* The results of the five read accessors, with the flag at the time and the
\* number of reads made since the last push (2 for two or more).
Observe(c, reads) ==
    [points   |-> points(c),
     x_bounds |-> x_bounds(c),
     y_bounds |-> y_bounds(c),
     y_labels |-> y_labels(c),
     current  |-> current(c),
     enabled  |-> c.enabled,
     reads    |-> reads]

NoRead ==
    [points |-> <<>>, x_bounds |-> <<>>, y_bounds |-> <<>>, y_labels |-> <<>>,
     current |-> "", enabled |-> TRUE, reads |-> 0]

\* What a renderer reads from the chart.
Reading(c) == [y_bounds |-> y_bounds(c), current |-> current(c)]

NoReading == [y_bounds |-> <<>>, current |-> ""]

\* The window of the most recent pushes: at most RESOLUTION of them.
Remember(h, value, index) ==
    LET all == Append(h, [value |-> value, index |-> index])
    IN  IF Len(all) > RESOLUTION THEN Tail(all) ELSE all

\* A call with its arguments and the sizes of the series when it was made.
Call(op, value, index, flag, sets) ==
    [op |-> op, value |-> value, index |-> index, flag |-> flag,
     total_before |-> TotalLen(sets),
     lens_before  |-> [i \in Indices(sets) |-> Len(sets[i])]]

-----------------------------------------------------------------------------
InitChart ==
    /\ chart = new(Config, "EnergyRate", EnergyRateColors)
    /\ hist = <<>>
    /\ last_call = Call("new", 0, 0, TRUE, chart.points_sets)
    /\ saved = NoReading
    /\ panicked = FALSE
    /\ last_read = NoRead

Init ==
    /\ InitChart
    /\ view = View_new(Config)
    /\ last_update = NoUpdate

\* A View built with either unit preference.
InitView ==
    /\ InitChart
    /\ \E units \in {"Human", "Si"} : view = View_new([units |-> units])
    /\ last_update = NoUpdate

Push(value, index) ==
    /\ ~panicked
    /\ chart' = push(chart, value, index)
    /\ panicked' = push_panics(chart, value, index)
    /\ hist' = IF panicked' THEN hist ELSE Remember(hist, value, index)
    /\ last_call' = Call("push", value, index, chart.enabled, chart.points_sets)
    /\ saved' = NoReading
    /\ last_read' = NoRead
    /\ UNCHANGED <<view, last_update>>

\* The renderer calls the read accessors, all of them on &self.
Render ==
    /\ ~panicked
    /\ last_read' = Observe(chart, IF last_read.reads = 0 THEN 1 ELSE 2)
    /\ last_call' = Call("read", 0, 0, chart.enabled, chart.points_sets)
    /\ UNCHANGED <<chart, hist, saved, panicked, view, last_update>>

Enabled(value) ==
    /\ ~panicked
    /\ chart' = enabled(chart, value)
    /\ last_call' = Call("enabled", 0, 0, value, chart.points_sets)
    /\ saved' = IF chart.enabled /\ ~value THEN Reading(chart) ELSE saved
    /\ UNCHANGED <<hist, panicked, last_read, view, last_update>>

\* The caller writes the state of the battery through battery_state().
BatteryState(state) ==
    /\ ~panicked
    /\ chart' = battery_state(chart, state)
    /\ last_call' = Call("battery_state", 0, 0, chart.enabled, chart.points_sets)
    /\ UNCHANGED <<hist, saved, panicked, last_read, view, last_update>>

\* One tick of the poll loop: View::update with what the refresh gave.
Update(refresh) ==
    /\ view' = update(view, refresh).view
    /\ last_update' = [result |-> update(view, refresh).result, refresh |-> refresh]
    /\ UNCHANGED <<chart, hist, last_call, saved, panicked, last_read>>

Next ==
    \/ \E index \in Indices(chart.points_sets) :
           \E value \in ValuesFor(index) : Push(value, index)
    \/ \E value \in BOOLEAN : Enabled(value)
    \/ \E state \in States : BatteryState(state)

Spec == Init /\ [][Next]_vars

\* The same chart fed with samples around zero.
NextSigned ==
    \/ \E index \in Indices(chart.points_sets) :
           \E value \in SignedValuesFor(index) : Push(value, index)
    \/ \E value \in BOOLEAN : Enabled(value)
    \/ \E state \in States : BatteryState(state)

SpecSigned == Init /\ [][NextSigned]_vars

\* The same chart with a caller that may break the precondition index < N.
NextAnyIndex ==
    \/ \E index \in 0 .. Cardinality(Indices(chart.points_sets)) :
           \E value \in FewValuesFor(index) : Push(value, index)
    \/ \E value \in BOOLEAN : Enabled(value)
    \/ \E state \in States : BatteryState(state)

SpecAnyIndex == Init /\ [][NextAnyIndex]_vars

\* The chart with its renderer.
NextRead ==
    \/ \E index \in Indices(chart.points_sets) :
           \E value \in FewValuesFor(index) : Push(value, index)
    \/ \E value \in BOOLEAN : Enabled(value)
    \/ \E state \in States : BatteryState(state)
    \/ Render

SpecRead == Init /\ [][NextRead]_vars

\* The View under its poll loop.
NextView == \E refresh \in Refreshes : Update(refresh)

SpecView == InitView /\ [][NextView]_vars

-----------------------------------------------------------------------------
\* Vocabulary of the properties, defined on the stored data alone.

\* The positions <<series, k>> holding a point.
Slots(sets) == UNION {{<<i, k>> : k \in 1 .. Len(sets[i])} : i \in DOMAIN sets}

StoredCount(sets) == Cardinality(Slots(sets))

XsOf(sets) == {sets[s[1]][s[2]][1] : s \in Slots(sets)}

YsOf(sets) == {sets[s[1]][s[2]][2] : s \in Slots(sets)}

YSeq(set) == [k \in 1 .. Len(set) |-> set[k][2]]

\* A sequence of points with d taken off every x.
ShiftX(set, d) == [k \in 1 .. Len(set) |-> <<set[k][1] - d, set[k][2]>>]

\* The points of series i after a push to series index, without the new one.
OldPart(sets, index, i) ==
    IF i = index THEN SubSeq(sets[i], 1, Len(sets[i]) - 1) ELSE sets[i]

\* Series i holds, at its front, the one point with the least x of all.
HoldsOldest(sets, i) ==
    /\ Len(sets[i]) > 0
    /\ \A s \in Slots(sets) :
           s # <<i, 1>> => sets[i][1][1] < sets[s[1]][s[2]][1]

\* The values pushed to series i among the remembered pushes, in push order.
PushedTo(i) ==
    LET es == SelectSeq(hist, LAMBDA e : e.index = i)
    IN  [k \in 1 .. Len(es) |-> es[k].value]

\* A push has just been made (the step's call is a push).
PushStep == last_call'.op = "push"

-----------------------------------------------------------------------------
\* C1: in every reachable state the number of points stored in all series
\* together is at most the capacity RESOLUTION, whatever the interleaving of
\* pushes over the series and whatever the enabled flag.
C1_Capacity == StoredCount(chart.points_sets) <= RESOLUTION

\* A push made on a full, disabled buffer holding points in both series.
C1_Witness ==
    /\ last_call.op = "push"
    /\ last_call.total_before = RESOLUTION
    /\ ~last_call.flag
    /\ StoredCount(chart.points_sets) = RESOLUTION
    /\ \A i \in DOMAIN chart.points_sets : Len(chart.points_sets[i]) > 0

\* C2: a push made when the buffer is full removes exactly one point, the
\* one with the least x of all series (judged on the x before aging, the new
\* point not being a candidate); a push made below capacity removes none.
\* The points kept are the old ones, all shifted by one common amount.
C2_Eviction ==
    [][PushStep =>
        LET pre  == chart.points_sets
            post == chart'.points_sets
            idx  == last_call'.index
        IN  \E d \in 0 .. f64(RESOLUTION) :
                IF StoredCount(pre) = RESOLUTION
                THEN \E j \in DOMAIN pre :
                        /\ HoldsOldest(pre, j)
                        /\ \A i \in DOMAIN pre :
                               OldPart(post, idx, i) =
                                   ShiftX(IF i = j THEN Tail(pre[i]) ELSE pre[i], d)
                ELSE \A i \in DOMAIN pre : OldPart(post, idx, i) = ShiftX(pre[i], d)
    ]_vars

\* A push to series 0 on a full buffer has left both series non-empty.
C2_Witness ==
    /\ last_call.op = "push"
    /\ last_call.index = 0
    /\ last_call.total_before = RESOLUTION
    /\ Len(chart.points_sets[0]) > 1
    /\ Len(chart.points_sets[1]) > 0

\* C3: once a push has been made, value_min and value_max are the least and
\* the greatest y of the points stored now; with one point stored both are
\* that point's y.
C3_MinMaxExact ==
    hist # <<>> =>
        LET ys == YsOf(chart.points_sets)
        IN  /\ chart.value_min \in ys
            /\ chart.value_max \in ys
            /\ \A y \in ys : chart.value_min <= y /\ y <= chart.value_max
            /\ StoredCount(chart.points_sets) = 1 =>
                   \A y \in ys : chart.value_min = y /\ chart.value_max = y

\* A push on a full buffer after which neither extreme is 1.0, 9.0 or a
\* construction sentinel.
C3_Witness ==
    /\ last_call.op = "push"
    /\ last_call.total_before = RESOLUTION
    /\ chart.value_min = f64(2)
    /\ chart.value_max = f64(5)

Pushes0(values) == [k \in 1 .. Len(values) |-> [value |-> f64(values[k]), index |-> 0]]

C4_Stored ==
    \A i \in DOMAIN chart.points_sets : YSeq(chart.points_sets[i]) = PushedTo(i)

C4_Example ==
    (/\ RESOLUTION = 4
     /\ hist = Pushes0(<<1, 5, 3, 9>>)
     /\ PushStep
     /\ last_call'.value = f64(2)
     /\ last_call'.index = 0)
    => /\ YSeq(chart'.points_sets[0]) = <<f64(5), f64(3), f64(9), f64(2)>>
       /\ StoredCount(chart'.points_sets) = 4
       /\ chart'.value_min = f64(2)
       /\ chart'.value_max = f64(9)

\* C4: the points stored are the samples of the last min(k, RESOLUTION)
\* pushes, each in the series it was pushed to and in push order there; with
\* capacity 4, pushing 1, 5, 3, 9, 2 to one series leaves 5, 3, 9, 2 with
\* value_min = 2 and value_max = 9.
C4_LastPushes == [] C4_Stored /\ [][C4_Example]_vars

\* The example's final state, reached by a push on a full buffer.
C4_Witness ==
    /\ RESOLUTION = 4
    /\ hist = Pushes0(<<5, 3, 9, 2>>)
    /\ last_call.op = "push"
    /\ last_call.total_before = RESOLUTION
    /\ YSeq(chart.points_sets[0]) = <<f64(5), f64(3), f64(9), f64(2)>>
    /\ chart.value_min = f64(2)
    /\ chart.value_max = f64(9)

\* The seed x of a new point, total_capacity / 2, and half a unit of x.
Seed == f64(RESOLUTION) \div 2

HalfUnit == f64(1) \div 2

\* In this step every point that is still stored has lost exactly step from
\* its x and kept its y.  The points still stored in series i are its old
\* part, aligned with the back of the series as it was.
AgedBy(step) ==
    LET pre  == chart.points_sets
        post == chart'.points_sets
    IN  \A i \in DOMAIN pre :
            LET old == OldPart(post, last_call'.index, i)
                off == Len(pre[i]) - Len(old)
            IN  /\ off \in {0, 1}
                /\ \A k \in 1 .. Len(old) :
                       old[k] = <<pre[i][k + off][1] - step, pre[i][k + off][2]>>

\* C5, as stated: each push takes exactly one unit off the x of every point
\* that stays stored, the unit being that of the seed x and of x_bounds.
C5_OneUnit == [][PushStep => AgedBy(f64(1))]_vars

\* C5, amended: each push takes exactly 0.5, half a unit, off the x of every
\* point that stays stored, in every series.
C5_HalfUnit == [][PushStep => AgedBy(HalfUnit)]_vars

\* A push to series 0 that left aged points in both series.
C5_Witness ==
    /\ last_call.op = "push"
    /\ last_call.index = 0
    /\ \E k \in 1 .. Len(chart.points_sets[0]) : chart.points_sets[0][k][1] = Seed - HalfUnit
    /\ \E k \in 1 .. Len(chart.points_sets[1]) : chart.points_sets[1][k][1] < Seed - HalfUnit

\* C6: every stored x is non-negative and at most total_capacity / 2: it
\* lies in the range x_bounds() returns.
C6_XInBounds ==
    \A x \in XsOf(chart.points_sets) :
        /\ f64(0) <= x
        /\ x <= Seed
        /\ x_bounds(chart)[1] <= x
        /\ x <= x_bounds(chart)[2]

\* A full buffer after an evicting push: its points span the whole range
\* reached, from 0.5 to the seed.
C6_Witness ==
    /\ last_call.op = "push"
    /\ last_call.total_before = RESOLUTION
    /\ HalfUnit \in XsOf(chart.points_sets)
    /\ x_bounds(chart)[2] \in XsOf(chart.points_sets)

\* The positions in hist of the pushes made to series i, in push order.
PositionsOf(i) ==
    SelectSeq([p \in 1 .. Len(hist) |-> p], LAMBDA p : hist[p].index = i)

\* C7: within each series x increases strictly from the front to the back,
\* and the x distance of two points of a series is the number of pushes (to
\* any series) made between them times a fixed amount (0.5).
C7_AgeOrdered ==
    \A i \in DOMAIN chart.points_sets :
        LET set == chart.points_sets[i]
            pos == PositionsOf(i)
        IN  /\ Len(set) = Len(pos)
            /\ \A k, m \in 1 .. Len(set) :
                   k < m => /\ set[k][1] < set[m][1]
                            /\ set[m][1] - set[k][1] = HalfUnit * (pos[m] - pos[k])

\* Series 0 holds two neighbours one unit apart: a push to series 1 was made
\* between them.
C7_Witness ==
    /\ Len(chart.points_sets[1]) > 0
    /\ \E k \in 1 .. Len(chart.points_sets[0]) - 1 :
           chart.points_sets[0][k + 1][1] - chart.points_sets[0][k][1] = 2 * HalfUnit

\* C8: right after push(value, index), latest_value is value, the last point
\* of series index is (total_capacity / 2, value), and no other stored point
\* has x = total_capacity / 2.
C8_NewestPoint ==
    last_call.op = "push" =>
        LET sets == chart.points_sets
            set  == sets[last_call.index]
        IN  /\ chart.value_latest = last_call.value
            /\ Len(set) > 0
            /\ set[Len(set)] = <<Seed, last_call.value>>
            /\ \A s \in Slots(sets) :
                   sets[s[1]][s[2]][1] = Seed => s = <<last_call.index, Len(set)>>

\* A push of 5.0 to series 1 of a full buffer whose other series is older.
C8_Witness ==
    /\ last_call.op = "push"
    /\ last_call.index = 1
    /\ last_call.total_before = RESOLUTION
    /\ Len(chart.points_sets[0]) > 0
    /\ chart.value_latest = f64(5)

\* C9: whenever the chart is disabled, y_bounds() is [0, 0] and current() is
\* "NOT AVAILABLE", whatever was pushed before or after disabling.
C9_Disabled ==
    ~chart.enabled =>
        /\ y_bounds(chart) = <<f64(0), f64(0)>>
        /\ current(chart) = "NOT AVAILABLE"

\* 9.0 was pushed while the chart was disabled.
C9_Witness ==
    /\ ~chart.enabled
    /\ last_call.op = "push"
    /\ ~last_call.flag
    /\ chart.value_latest = f64(9)
    /\ chart.value_max = f64(9)

C10_Frame ==
    last_call'.op = "enabled" =>
        /\ chart'.enabled = last_call'.flag
        /\ chart'.points_sets = chart.points_sets
        /\ chart'.value_latest = chart.value_latest
        /\ chart'.value_min = chart.value_min
        /\ chart'.value_max = chart.value_max

C10_Restored == (saved # NoReading /\ chart.enabled) => Reading(chart) = saved

\* C10: enabled(b) changes the enabled flag and nothing else, so a chart that
\* is disabled and enabled again, with no push in between, gives the y_bounds()
\* and current() it gave before it was disabled.
C10_EnabledFrame == [] C10_Restored /\ [][C10_Frame]_vars

\* A chart holding points was disabled and enabled again.
C10_Witness ==
    /\ last_call.op = "enabled"
    /\ chart.enabled
    /\ saved # NoReading
    /\ saved.current = "9.00 W"
    /\ saved.y_bounds = <<f64(0), f64(10)>>

\* C11, as stated: whenever the chart is enabled and holds a point, every
\* stored y lies strictly inside the y range, y_bounds()[0] < y < y_bounds()[1],
\* whatever the samples (zero and negative ones too).
C11_StrictlyInside ==
    (chart.enabled /\ StoredCount(chart.points_sets) > 0) =>
        \A y \in YsOf(chart.points_sets) :
            y_bounds(chart)[1] < y /\ y < y_bounds(chart)[2]

\* C11, amended: whenever the chart is enabled and holds a point, every
\* stored y is strictly below y_bounds()[1], and every stored y above -1.0
\* (every non-negative sample, then) is strictly above y_bounds()[0]; the
\* lower bound never goes below -1.0.
C11_InsideAboveClamp ==
    (chart.enabled /\ StoredCount(chart.points_sets) > 0) =>
        /\ -f64(1) <= y_bounds(chart)[1]
        /\ \A y \in YsOf(chart.points_sets) :
               /\ y < y_bounds(chart)[2]
               /\ y > -f64(1) => y_bounds(chart)[1] < y

\* An enabled chart holding 0.0, -0.5 and a positive sample.
C11_Witness ==
    /\ chart.enabled
    /\ last_call.op = "push"
    /\ {f64(0), -1, f64(3)} \subseteq YsOf(chart.points_sets)

\* The integers (in halves) around v, for floor and ceiling by search.
WholeNear(v) == {n \in v - 2 .. v + 2 : n % 2 = 0}

FloorOf(v) == CHOOSE n \in WholeNear(v) : n <= v /\ v < n + f64(1)

CeilOf(v) == CHOOSE n \in WholeNear(v) : n - f64(1) < v /\ v <= n

\* The decimal numeral of a whole number w (in halves), at least 2 wide.
Numeral(w) == IF w \div 2 \in 0 .. 9 THEN " " \o ToString(w \div 2) ELSE ToString(w \div 2)

\* The numerals of the bound w: zero is the ceiling of the numbers in
\* (-1, 0] and, with a sign, is written either way.
NumeralsOf(w) == IF w = f64(0) THEN {" 0", "-0"} ELSE {Numeral(w)}

\* C12: when the chart is enabled, y_bounds() is
\* [max(-1, floor(value_min - 1)), ceil(value_max + 1)], and y_labels() names
\* these two numbers, the lower one first.
C12_Bounds ==
    chart.enabled =>
        LET lo == FloorOf(chart.value_min - f64(1))
            hi == CeilOf(chart.value_max + f64(1))
        IN  /\ y_bounds(chart) = <<IF lo < -f64(1) THEN -f64(1) ELSE lo, hi>>
            /\ Len(y_labels(chart)) = 2
            /\ y_labels(chart)[1] = Numeral(y_bounds(chart)[1])
            /\ y_labels(chart)[2] \in NumeralsOf(y_bounds(chart)[2])
            /\ y_labels(chart)[2] = "-0" <=>
                   (-f64(1) < chart.value_max + f64(1) /\ chart.value_max + f64(1) < f64(0))

\* An enabled chart whose extremes are -1.0 and 2.5: bounds [-1, 4].
C12_Witness ==
    /\ chart.enabled
    /\ chart.value_min = -f64(1)
    /\ chart.value_max = 5
    /\ y_bounds(chart) = <<-f64(1), f64(4)>>
    /\ y_labels(chart) = <<"-1", " 4">>

\* C18: whenever the chart is enabled, the freshly built chart included
\* (value_min = 100, value_max = 0), y_bounds() is a well-formed range,
\* y_bounds()[0] <= y_bounds()[1].
C18_WellFormed == chart.enabled => y_bounds(chart)[1] <= y_bounds(chart)[2]

\* C14: with series_index < N every push returns: none panics, and whenever
\* the buffer is full the series the eviction selects holds a point, for
\* remove(0) to take.
C14_PushTotal ==
    /\ ~panicked
    /\ StoredCount(chart.points_sets) = RESOLUTION =>
           Len(chart.points_sets[MinByKey(chart.points_sets)]) > 0

\* A push made on a full buffer one of whose series was empty has returned.
C14_Witness ==
    /\ ~panicked
    /\ last_call.op = "push"
    /\ last_call.total_before = RESOLUTION
    /\ last_call.lens_before[1] = 0
    /\ StoredCount(chart.points_sets) = RESOLUTION

\* C16: a series that receives none of RESOLUTION consecutive pushes is empty
\* after them, the other series holding RESOLUTION points: a series that held
\* a point is starved by pushes to the other one.
C16_Starved ==
    \A i \in DOMAIN chart.points_sets :
        (Len(hist) = RESOLUTION /\ \A p \in 1 .. Len(hist) : hist[p].index # i) =>
            /\ Len(chart.points_sets[i]) = 0
            /\ StoredCount(chart.points_sets) = RESOLUTION

\* The push to series 0 that evicted the last point of series 1.
C16_Witness ==
    /\ last_call.op = "push"
    /\ last_call.index = 0
    /\ last_call.lens_before[1] = 1
    /\ Len(chart.points_sets[1]) = 0
    /\ Len(chart.points_sets[0]) = RESOLUTION

\* C17: the x of the stored points are pairwise different over all series;
\* in a full buffer no two series have the same front x, so the point to
\* evict is unique and the order of iteration decides nothing.
C17_DistinctX ==
    /\ Cardinality(XsOf(chart.points_sets)) = StoredCount(chart.points_sets)
    /\ \A i, j \in DOMAIN chart.points_sets :
           (i # j /\ Len(chart.points_sets[i]) > 0 /\ Len(chart.points_sets[j]) > 0) =>
               chart.points_sets[i][1][1] # chart.points_sets[j][1][1]

\* A full buffer, after an evicting push, with points in both series.
C17_Witness ==
    /\ last_call.op = "push"
    /\ last_call.total_before = RESOLUTION
    /\ Len(chart.points_sets[0]) > 1
    /\ Len(chart.points_sets[1]) > 1

\* A push has just panicked.
PanicStep == ~panicked /\ panicked'

\* C15, as stated: push with series_index >= N panics before any state of
\* the buffer is changed: no point is evicted, no x is aged, and latest_value,
\* min_value and max_value are as before at the moment of the failure.
C15_FailsBeforeChange ==
    [][(PushStep /\ last_call'.index \notin DOMAIN chart.points_sets) =>
           /\ panicked'
           /\ chart'.points_sets = chart.points_sets
           /\ chart'.value_latest = chart.value_latest
           /\ chart'.value_min = chart.value_min
           /\ chart'.value_max = chart.value_max
    ]_vars

\* What the code does at such an index: push panics exactly when the index
\* is not below N, and the panic comes at the append.  When it is raised the
\* eviction (of the oldest point, if the buffer was full) and the aging of
\* every remaining x by 0.5 are done and latest_value is the new value; no
\* point is appended and min_value, max_value and enabled are as before.
PushPanicsAtAppend ==
    [][PushStep =>
        LET pre  == chart.points_sets
            post == chart'.points_sets
        IN  /\ panicked' <=> last_call'.index \notin DOMAIN pre
            /\ panicked' =>
                   /\ chart'.value_latest = last_call'.value
                   /\ chart'.value_min = chart.value_min
                   /\ chart'.value_max = chart.value_max
                   /\ chart'.enabled = chart.enabled
                   /\ IF StoredCount(pre) = RESOLUTION
                      THEN \E j \in DOMAIN pre :
                              /\ HoldsOldest(pre, j)
                              /\ \A i \in DOMAIN pre :
                                     post[i] = ShiftX(IF i = j THEN Tail(pre[i]) ELSE pre[i],
                                                      HalfUnit)
                      ELSE \A i \in DOMAIN pre : post[i] = ShiftX(pre[i], HalfUnit)
    ]_vars

\* A push of 3.0 to series N on a full buffer has panicked: one point is gone,
\* none was added, latest_value is 3.0 and value_max is still 9.0.
PanicAfterEviction ==
    /\ panicked
    /\ last_call.op = "push"
    /\ last_call.index \notin DOMAIN chart.points_sets
    /\ last_call.total_before = RESOLUTION
    /\ StoredCount(chart.points_sets) = RESOLUTION - 1
    /\ chart.value_latest = f64(3)
    /\ chart.value_max = f64(9)

\* The accessors have just been read.
ReadStep == last_call'.op = "read"

\* The five results of two reads are the same.
SameResults(a, b) ==
    /\ a.points = b.points
    /\ a.x_bounds = b.x_bounds
    /\ a.y_bounds = b.y_bounds
    /\ a.y_labels = b.y_labels
    /\ a.current = b.current

\* C13, as stated: reading the accessors changes nothing in the buffer, and
\* two reads of an accessor with no push between them give the same result.
C13_SameWithoutPush ==
    [][ReadStep =>
           /\ chart' = chart
           /\ last_read.reads > 0 => SameResults(last_read', last_read)
    ]_vars

\* C13, amended: reading the accessors changes nothing in the buffer; two
\* reads of points or x_bounds with no push between them give the same
\* result, and so do two reads of y_bounds, y_labels or current with no push
\* between them and the same value of the enabled flag at both.
C13_SameWithoutPushOrFlag ==
    [][ReadStep =>
           /\ chart' = chart
           /\ last_read.reads > 0 =>
                  /\ last_read'.points = last_read.points
                  /\ last_read'.x_bounds = last_read.x_bounds
                  /\ last_read'.enabled = last_read.enabled =>
                         SameResults(last_read', last_read)
    ]_vars

\* A second read of an enabled chart that holds points and was disabled and
\* enabled again since the last push.
C13_Witness ==
    /\ last_call.op = "read"
    /\ last_read.reads = 2
    /\ last_read.enabled
    /\ saved # NoReading
    /\ last_read.current = "9.00 W"
    /\ last_read.y_labels = <<" 0", "10">>

\* A View::update has just been made.
UpdateStep == last_update'.result # "None"

\* Chart post is chart pre after exactly one push of value to series index:
\* the new point is the last of that series, every other point is a point of
\* pre with 0.5 off its x, at most one point of pre is gone and only from a
\* full buffer, and latest_value is value.
OnePush(pre, post, index, value) ==
    /\ DOMAIN post.points_sets = DOMAIN pre.points_sets
    /\ post.value_latest = value
    /\ Len(post.points_sets[index]) > 0
    /\ post.points_sets[index][Len(post.points_sets[index])] = <<Seed, value>>
    /\ StoredCount(post.points_sets) =
           IF StoredCount(pre.points_sets) = RESOLUTION
           THEN RESOLUTION ELSE StoredCount(pre.points_sets) + 1
    /\ \A i \in DOMAIN pre.points_sets :
           LET old == OldPart(post.points_sets, index, i)
               off == Len(pre.points_sets[i]) - Len(old)
           IN  /\ off \in {0, 1}
               /\ \A k \in 1 .. Len(old) :
                      old[k] = <<pre.points_sets[i][k + off][1] - HalfUnit,
                                 pre.points_sets[i][k + off][2]>>

\* C19: when the refresh of the battery fails, update returns the error and
\* none of the three charts changes in any field; when it succeeds, voltage
\* and energy_rate each receive exactly one push.
C19_AllOrNothing ==
    [][UpdateStep =>
        LET refresh == last_update'.refresh
        IN  IF refresh.ok
            THEN /\ last_update'.result = "Ok"
                 /\ OnePush(view.voltage, view'.voltage, 0, refresh.battery.voltage)
                 /\ \E index \in DOMAIN view.energy_rate.points_sets :
                        OnePush(view.energy_rate, view'.energy_rate, index,
                                refresh.battery.energy_rate)
            ELSE /\ last_update'.result = "Err"
                 /\ view'.voltage = view.voltage
                 /\ view'.energy_rate = view.energy_rate
                 /\ view'.temperature = view.temperature
    ]_vars

\* A refresh has failed on a View whose charts are full, the temperature
\* chart being enabled.
C19_Witness ==
    /\ last_update.result = "Err"
    /\ StoredCount(view.voltage.points_sets) = RESOLUTION
    /\ Len(view.energy_rate.points_sets[1]) > 0
    /\ StoredCount(view.temperature.points_sets) > 0
    /\ view.temperature.enabled

\* C20: after a successful update the temperature chart is enabled exactly
\* when the battery had a temperature; without one the chart receives no
\* push (points, latest_value, min and max as before) and is disabled, with
\* one it receives exactly one push, to series 0, and is enabled.
C20_TemperatureFlag ==
    [][(UpdateStep /\ last_update'.result = "Ok") =>
        LET battery == last_update'.refresh.battery
        IN  /\ view'.temperature.enabled = battery.temperature.some
            /\ IF battery.temperature.some
               THEN \E value \in {battery.temperature.degree_celsius,
                                  battery.temperature.kelvin} :
                        OnePush(view.temperature, view'.temperature, 0, value)
               ELSE /\ view'.temperature.points_sets = view.temperature.points_sets
                    /\ view'.temperature.value_latest = view.temperature.value_latest
                    /\ view'.temperature.value_min = view.temperature.value_min
                    /\ view'.temperature.value_max = view.temperature.value_max
    ]_vars

\* An update without a temperature has disabled a chart that holds points.
C20_Witness ==
    /\ last_update.result = "Ok"
    /\ ~last_update.refresh.battery.temperature.some
    /\ ~view.temperature.enabled
    /\ StoredCount(view.temperature.points_sets) > 1

=============================================================================
